---- MODULE Spec2Model ----
(***************************************************************************)
(* Gold-telegram-bot: the /gold handler (bot.py) and the snapshot builder  *)
(* and formatter (data_sources.py).                                        *)
(*                                                                         *)
(* Time is counted in minutes on one UTC axis.  A float is a tuple: <<>>   *)
(* is NaN, <<n>> is the number n; a percentage is NaN or a reduced         *)
(* fraction <<num, den>> with den > 0 (exact arithmetic, no rounding).     *)
(* A DataFrame is the sequence of its rows [t, Close, Volume] in index     *)
(* order; the frames yfinance returns are indexed by strictly increasing   *)
(* timestamps.  An awaited Telegram call and a pandas call that can raise  *)
(* either return or raise.                                                 *)
(***************************************************************************)
EXTENDS Integers, Sequences, FiniteSets, TLC

VARIABLES
    pc,          \* position of the /gold request inside gold_cmd / get_gold_snapshot
    clock,       \* the wall clock (minutes)
    ticks,       \* how often the clock has advanced
    now_local,   \* get_gold_snapshot: now_local (line 94)
    now_utc,     \* get_gold_snapshot: now_utc (line 95)
    now_utc_ts,  \* get_gold_snapshot: now_utc_ts (line 118)
    issued,      \* number of _safe_history calls that have returned
    frames,      \* the frames fetched so far, by local variable
    snapshot,    \* gold_cmd: snapshot
    message,     \* gold_cmd: message
    exc,         \* the exception caught by gold_cmd's except clause ("" = none)
    sent,        \* the messages delivered to the requester, in order
    escaped,     \* the exception that left gold_cmd ("" = none)
    attempts,    \* how often each step of the handler has been started
    fn_pc,       \* pure-function harness: "idle", "input" or "applied"
    fn_in,       \* pure-function harness: the arguments
    fn_out       \* pure-function harness: the results

vars == <<pc, clock, ticks, now_local, now_utc, now_utc_ts, issued, frames,
          snapshot, message, exc, sent, escaped, attempts, fn_pc, fn_in, fn_out>>

---------------------------------------------------------------------------
(* Bounds of the model *)

MaxTicks == 2

MaxCoarseLen == 3

MaxFineLen == 3

MaxK == 3

(* Program constants *)

MinutesPerHour == 60

ChangeHours == 24

VolumeHours == 1

NumRetrievals == 8

---------------------------------------------------------------------------
(* Floats *)

NaN == <<>>

Num(n) == <<n>>

IsNaN(x) == x = NaN

Abs(n) == IF n < 0 THEN -n ELSE n

RECURSIVE Gcd(_, _)
Gcd(a, b) == IF b = 0 THEN a ELSE Gcd(b, a % b)

\* n / d as a reduced fraction with a positive denominator (d # 0)
Frac(n, d) ==
    LET g == Gcd(Abs(n), Abs(d))
        s == IF d < 0 THEN -1 ELSE 1
    IN  <<(s * n) \div g, (s * d) \div g>>

Timedelta(hours) == hours * MinutesPerHour

---------------------------------------------------------------------------
(* DataFrames *)

Row(t, c, v) == [t |-> t, Close |-> c, Volume |-> v]

EmptyFrame == <<>>

\* df["Close"].dropna(): the rows whose close is not missing, in index order
DropnaClose(df) == SelectSeq(df, LAMBDA r : ~IsNaN(r.Close))

\* fillna(0) on one volume
Fillna0(v) == IF IsNaN(v) THEN 0 ELSE v[1]

RECURSIVE SumVolume(_)
SumVolume(rows) ==
    IF Len(rows) = 0 THEN 0
    ELSE Fillna0(Head(rows).Volume) + SumVolume(Tail(rows))

\* the slice with the row at the cutoff left out
PastSeriesExclusive(closes, cutoff_time) ==
    SelectSeq(closes, LAMBDA r : r.t < cutoff_time)

\* closes.loc[:cutoff_time] on a sorted index: every label <= cutoff_time
PastSeries(closes, cutoff_time) ==
    SelectSeq(closes, LAMBDA r : r.t <= cutoff_time)

\* the absolute change, the division by base forgotten
PctRatioUndivided(last, base) == Frac((last - base) * 100, 1)

\* (last - base) / base * 100.0
PctRatio(last, base) == Frac((last - base) * 100, base)

_pct_change_over_hours(df, hours) ==
    IF Len(df) = 0 THEN NaN
    ELSE LET closes == DropnaClose(df) IN
         IF Len(closes) = 0 THEN NaN
         ELSE LET last_time   == closes[Len(closes)].t
                  last        == closes[Len(closes)].Close[1]
                  cutoff_time == last_time - Timedelta(hours)
                  past_series == PastSeries(closes, cutoff_time)
                  base        == IF Len(past_series) = 0
                                 THEN closes[1].Close[1]
                                 ELSE past_series[Len(past_series)].Close[1]
              IN  IF base = 0 THEN NaN ELSE PctRatio(last, base)

\* the window closed at both ends
VolumeMaskClosed(t, one_hour_ago, now) == t >= one_hour_ago /\ t <= now

\* mask = (df.index > one_hour_ago) & (df.index <= now_utc)
VolumeMask(t, one_hour_ago, now) == t > one_hour_ago /\ t <= now

_last_hour_volume_sum(df, now) ==
    IF Len(df) = 0 THEN 0
    ELSE LET one_hour_ago == now - Timedelta(VolumeHours)
         IN  SumVolume(SelectSeq(df, LAMBDA r : VolumeMask(r.t, one_hour_ago, now)))

_latest_price(df) ==
    IF Len(df) = 0 THEN NaN
    ELSE LET closes == DropnaClose(df) IN
         IF Len(closes) = 0 THEN NaN ELSE closes[Len(closes)].Close

---------------------------------------------------------------------------
(* Bounded inputs of the pure functions *)

\* the start of the modelled time axis' interesting part
T0 == 3 * ChangeHours * MinutesPerHour

\* the strictly increasing frames of at most n rows over the given columns
RECURSIVE SeriesUpTo(_, _, _, _)
SeriesUpTo(n, times, closes, volumes) ==
    IF n = 0 THEN {EmptyFrame}
    ELSE LET shorter == SeriesUpTo(n - 1, times, closes, volumes)
             longest == {x \in shorter : Len(x) = n - 1}
             later(s) == {t \in times : Len(s) = 0 \/ t > s[Len(s)].t}
         IN  shorter \cup
             UNION { { Append(s, Row(t, c, v)) :
                         t \in later(s), c \in closes, v \in volumes } :
                     s \in longest }

CoarseTimes ==
    { T0 - Timedelta(ChangeHours) - 2 * MinutesPerHour,
      T0 - Timedelta(ChangeHours) - MinutesPerHour,
      T0 - Timedelta(ChangeHours),
      T0 - MinutesPerHour,
      T0 }

CoarseCloses == {NaN, Num(0), Num(1), Num(2)}

CoarseSeries == SeriesUpTo(MaxCoarseLen, CoarseTimes, CoarseCloses, {Num(0)})

FineTimes ==
    { T0 - Timedelta(VolumeHours) - 1,
      T0 - Timedelta(VolumeHours),
      T0 - Timedelta(VolumeHours) + 1,
      T0,
      T0 + 1,
      T0 + 2 }

FineVolumes == {NaN, Num(1), Num(2)}

FineSeries == SeriesUpTo(MaxFineLen, FineTimes, {Num(1)}, FineVolumes)

ReferenceTimes == {T0, T0 + 1}

\* every close multiplied by k; timestamps, volumes and missing closes unchanged
ScaleCloses(df, k) ==
    [i \in 1..Len(df) |->
        [df[i] EXCEPT !.Close = IF IsNaN(@) THEN NaN ELSE Num(k * @[1])]]

---------------------------------------------------------------------------
(* get_gold_snapshot: the frames it fetches *)

\* the eight _safe_history calls in program order (lines 98-105 and 110)
FetchOrder ==
    << "spot_1h", "etf_1h", "fut_main_1h",
       "spot_1m", "etf_1m", "fut_1m_0", "fut_1m_1",
       "fut_main_1m" >>

Slots == {FetchOrder[i] : i \in 1..NumRetrievals}

IsCoarse(slot) == slot \in {"spot_1h", "etf_1h", "fut_main_1h"}

\* what yfinance can answer for an hourly history
CoarseAnswers ==
    { EmptyFrame,
      << Row(T0 - Timedelta(ChangeHours) - MinutesPerHour, Num(1), Num(3)),
         Row(T0 - MinutesPerHour, Num(2), Num(3)) >>,
      << Row(T0 - MinutesPerHour, NaN, Num(3)) >> }

\* what yfinance can answer for a one-minute history
FineAnswers ==
    { EmptyFrame,
      << Row(T0 - Timedelta(VolumeHours), Num(5), Num(1)),
         Row(T0 - Timedelta(VolumeHours) + 1, Num(6), Num(2)),
         Row(T0 + 1, Num(7), Num(4)) >>,
      << Row(T0 - Timedelta(VolumeHours) + 1, NaN, Num(8)) >> }

Answers(slot) == IF IsCoarse(slot) THEN CoarseAnswers ELSE FineAnswers

---------------------------------------------------------------------------
(* get_gold_snapshot: the reductions of lines 108-121 *)

\* _latest_price(x_1m if not x_1m.empty else x_1h)
PriceOf(fine, coarse) == _latest_price(IF Len(fine) # 0 THEN fine ELSE coarse)

\* the volume of the first contract alone
FutVolumesPrimaryOnly(fut_1m_list, now) ==
    _last_hour_volume_sum(fut_1m_list[1], now)

\* sum(_last_hour_volume_sum(df, now_utc_ts) for df in fut_1m_list)
RECURSIVE FutVolumes(_, _)
FutVolumes(fut_1m_list, now) ==
    IF Len(fut_1m_list) = 0 THEN 0
    ELSE _last_hour_volume_sum(Head(fut_1m_list), now)
         + FutVolumes(Tail(fut_1m_list), now)

\* the total with the ETF left out
TotalVolumeFuturesOnly(fut_volumes, etf_volume) == fut_volumes

\* total_volume = fut_volumes + etf_volume
TotalVolume(fut_volumes, etf_volume) == fut_volumes + etf_volume

\* now_local.strftime("%Y-%m-%d %H:%M:%S %Z")
Strftime(t) == [fmt |-> "%Y-%m-%d %H:%M:%S %Z", t |-> t[1]]

NoSnapshot == [built |-> FALSE]

\* lines 108-145, from the fetched frames and the two clock readings
BuildSnapshot(fr, as_of, now) ==
    LET fut_1m_list == <<fr["fut_1m_0"], fr["fut_1m_1"]>>
        fut_volumes == FutVolumes(fut_1m_list, now)
        etf_volume  == _last_hour_volume_sum(fr["etf_1m"], now)
    IN  [ as_of_local |-> Strftime(as_of),
          spot |-> [ ticker |-> "XAUUSD=X",
                     price |-> PriceOf(fr["spot_1m"], fr["spot_1h"]),
                     change_24h_pct |->
                         _pct_change_over_hours(fr["spot_1h"], ChangeHours) ],
          etf |-> [ ticker |-> "GLD",
                    price |-> PriceOf(fr["etf_1m"], fr["etf_1h"]),
                    change_24h_pct |->
                        _pct_change_over_hours(fr["etf_1h"], ChangeHours),
                    last_hour_volume |-> etf_volume ],
          futures |-> [ tickers |-> <<"GC=F", "MGC=F">>,
                        price_main |->
                            PriceOf(fr["fut_main_1m"], fr["fut_main_1h"]),
                        change_24h_pct |->
                            _pct_change_over_hours(fr["fut_main_1h"], ChangeHours),
                        last_hour_volume_sum |-> fut_volumes ],
          totals |-> [ last_hour_volume_all |->
                           TotalVolume(fut_volumes, etf_volume) ] ]

---------------------------------------------------------------------------
(* format_snapshot *)

\* f"{x:,.2f}" of a float: NaN formats as the text nan, nothing raises
_fmt_money(x) ==
    IF IsNaN(x) THEN [text |-> "nan"] ELSE [fmt |-> ",.2f", value |-> x]

\* f"{int(round(x)):,}"; int(round(nan)) raises and gives "0"
_fmt_int(x) == [fmt |-> ",d", value |-> x]

pct(p) == IF IsNaN(p) THEN [text |-> "n/a"] ELSE [fmt |-> "+.2f%", value |-> p]

NoMessage == [rendered |-> FALSE]

format_snapshot(s) ==
    [ header  |-> s.as_of_local,
      spot    |-> [ ticker |-> s.spot.ticker,
                    price  |-> _fmt_money(s.spot.price),
                    change |-> pct(s.spot.change_24h_pct) ],
      etf     |-> [ ticker |-> s.etf.ticker,
                    price  |-> _fmt_money(s.etf.price),
                    change |-> pct(s.etf.change_24h_pct),
                    volume |-> _fmt_int(s.etf.last_hour_volume) ],
      futures |-> [ tickers |-> s.futures.tickers,
                    price  |-> _fmt_money(s.futures.price_main),
                    change |-> pct(s.futures.change_24h_pct),
                    volume |-> _fmt_int(s.futures.last_hour_volume_sum) ],
      totals  |-> _fmt_int(s.totals.last_hour_volume_all) ]

---------------------------------------------------------------------------
(* The /gold request *)

Steps == {"send_action", "get_gold_snapshot", "format_snapshot",
          "reply_report", "reply_error"}

Started(step) == attempts' = [attempts EXCEPT ![step] = @ + 1]

NoFunction == [none |-> TRUE]

Init ==
    /\ pc = "send_action"
    /\ clock = T0
    /\ ticks = 0
    /\ now_local = NaN
    /\ now_utc = NaN
    /\ now_utc_ts = NaN
    /\ issued = 0
    /\ frames = [s \in Slots |-> EmptyFrame]
    /\ snapshot = NoSnapshot
    /\ message = NoMessage
    /\ exc = ""
    /\ sent = <<>>
    /\ escaped = ""
    /\ attempts = [s \in Steps |-> 0]
    /\ fn_pc = "idle"
    /\ fn_in = NoFunction
    /\ fn_out = NoFunction

\* the wall clock moves on while the request is being handled
Tick ==
    /\ pc \notin {"done", "unused"}
    /\ ticks < MaxTicks
    /\ clock' = clock + 1
    /\ ticks' = ticks + 1
    /\ UNCHANGED <<pc, now_local, now_utc, now_utc_ts, issued, frames, snapshot,
                   message, exc, sent, escaped, attempts, fn_pc, fn_in, fn_out>>

\* bot.py line 33: await update.message.chat.send_action(action="typing")
SendAction ==
    /\ pc = "send_action"
    /\ Started("send_action")
    /\ \/ /\ pc' = "now_local"
          /\ exc' = exc
       \/ /\ pc' = "except"
          /\ exc' = "send_action failed"
    /\ UNCHANGED <<clock, ticks, now_local, now_utc, now_utc_ts, issued, frames,
                   snapshot, message, sent, escaped, fn_pc, fn_in, fn_out>>

\* line 94: now_local = _now_tz()
ReadNowLocal ==
    /\ pc = "now_local"
    /\ Started("get_gold_snapshot")
    /\ now_local' = Num(clock)
    /\ pc' = "now_utc"
    /\ UNCHANGED <<clock, ticks, now_utc, now_utc_ts, issued, frames, snapshot,
                   message, exc, sent, escaped, fn_pc, fn_in, fn_out>>

\* line 95: now_utc = pd.Timestamp.utcnow().tz_localize("UTC").  tz_localize
\* returns the reading when utcnow() is naive and raises TypeError when it is
\* tz-aware, which it is in the released pandas; the exception leaves
\* get_gold_snapshot and reaches the except clause of gold_cmd.
ReadNowUtc ==
    /\ pc = "now_utc"
    /\ \/ /\ now_utc' = Num(clock)
          /\ pc' = "fetch"
          /\ exc' = exc
       \/ /\ now_utc' = now_utc
          /\ pc' = "except"
          /\ exc' = "Cannot localize tz-aware Timestamp"
    /\ UNCHANGED <<clock, ticks, now_local, now_utc_ts, issued, frames, snapshot,
                   message, sent, escaped, attempts, fn_pc, fn_in, fn_out>>

\* lines 36-47: _safe_history, for the next call of lines 98-105 and 110:
\* either history() answers (its index converted to UTC, the model's time
\* axis), or it raises and the except clause returns an empty DataFrame
SafeHistory ==
    /\ pc = "fetch"
    /\ issued < NumRetrievals
    /\ LET slot == FetchOrder[issued + 1] IN
          \/ \E df \in Answers(slot) : frames' = [frames EXCEPT ![slot] = df]
          \/ frames' = [frames EXCEPT ![slot] = EmptyFrame]
    /\ issued' = issued + 1
    /\ pc' = IF issued + 1 = NumRetrievals THEN "now_utc_ts" ELSE "fetch"
    /\ UNCHANGED <<clock, ticks, now_local, now_utc, now_utc_ts, snapshot,
                   message, exc, sent, escaped, attempts, fn_pc, fn_in, fn_out>>

\* line 118: now_utc_ts = pd.Timestamp.utcnow().tz_localize("UTC")
ReadNowUtcTs ==
    /\ pc = "now_utc_ts"
    /\ \/ /\ now_utc_ts' = Num(clock)
          /\ pc' = "build"
          /\ exc' = exc
       \/ /\ now_utc_ts' = now_utc_ts
          /\ pc' = "except"
          /\ exc' = "Cannot localize tz-aware Timestamp"
    /\ UNCHANGED <<clock, ticks, now_local, now_utc, issued, frames, snapshot,
                   message, sent, escaped, attempts, fn_pc, fn_in, fn_out>>

\* the volumes windowed by the reading of line 95 instead of line 118
ReturnSnapshotStale ==
    /\ pc = "build"
    /\ snapshot' = BuildSnapshot(frames, now_local, now_utc[1])
    /\ pc' = "format"
    /\ UNCHANGED <<clock, ticks, now_local, now_utc, now_utc_ts, issued, frames,
                   message, exc, sent, escaped, attempts, fn_pc, fn_in, fn_out>>

\* lines 108-145 and bot.py line 34: snapshot = get_gold_snapshot()
ReturnSnapshot ==
    /\ pc = "build"
    /\ snapshot' = BuildSnapshot(frames, now_local, now_utc_ts[1])
    /\ pc' = "format"
    /\ UNCHANGED <<clock, ticks, now_local, now_utc, now_utc_ts, issued, frames,
                   message, exc, sent, escaped, attempts, fn_pc, fn_in, fn_out>>

\* bot.py line 35: message = format_snapshot(snapshot)
FormatSnapshot ==
    /\ pc = "format"
    /\ Started("format_snapshot")
    /\ message' = format_snapshot(snapshot)
    /\ pc' = "reply"
    /\ UNCHANGED <<clock, ticks, now_local, now_utc, now_utc_ts, issued, frames,
                   snapshot, exc, sent, escaped, fn_pc, fn_in, fn_out>>

\* bot.py line 36: await update.message.reply_text(message, parse_mode=MARKDOWN)
ReplyReport ==
    /\ pc = "reply"
    /\ Started("reply_report")
    /\ \/ /\ sent' = Append(sent, [kind |-> "report", body |-> message])
          /\ pc' = "done"
          /\ exc' = exc
       \/ /\ sent' = sent
          /\ pc' = "except"
          /\ exc' = "reply_text failed"
    /\ UNCHANGED <<clock, ticks, now_local, now_utc, now_utc_ts, issued, frames,
                   snapshot, message, escaped, fn_pc, fn_in, fn_out>>

\* bot.py lines 37-38: except Exception as e: await reply_text(f"... {e}")
ReplyError ==
    /\ pc = "except"
    /\ Started("reply_error")
    /\ \/ /\ sent' = Append(sent, [kind |-> "error", detail |-> exc])
          /\ escaped' = escaped
       \/ /\ sent' = sent
          /\ escaped' = "reply_text failed"
    /\ pc' = "done"
    /\ UNCHANGED <<clock, ticks, now_local, now_utc, now_utc_ts, issued, frames,
                   snapshot, message, exc, fn_pc, fn_in, fn_out>>

Next ==
    \/ Tick
    \/ SendAction
    \/ ReadNowLocal
    \/ ReadNowUtc
    \/ SafeHistory
    \/ ReadNowUtcTs
    \/ ReturnSnapshot
    \/ FormatSnapshot
    \/ ReplyReport
    \/ ReplyError

Spec == Init /\ [][Next]_vars

---------------------------------------------------------------------------
(* The pure functions on their own: the arguments are drawn from the       *)
(* bounded sets above and one step applies the function.                   *)

NoRequest ==
    /\ pc = "unused"
    /\ clock = T0
    /\ ticks = 0
    /\ now_local = NaN
    /\ now_utc = NaN
    /\ now_utc_ts = NaN
    /\ issued = 0
    /\ frames = [s \in Slots |-> EmptyFrame]
    /\ snapshot = NoSnapshot
    /\ message = NoMessage
    /\ exc = ""
    /\ sent = <<>>
    /\ escaped = ""
    /\ attempts = [s \in Steps |-> 0]

InitPct ==
    /\ NoRequest
    /\ fn_pc = "input"
    /\ fn_in \in [df : CoarseSeries, k : 1..MaxK]
    /\ fn_out = NoFunction

\* _pct_change_over_hours(df, 24) on the frame and on the frame scaled by k
ApplyPct ==
    /\ fn_pc = "input"
    /\ fn_out' =
         [ change |-> _pct_change_over_hours(fn_in.df, ChangeHours),
           scaled |-> _pct_change_over_hours(ScaleCloses(fn_in.df, fn_in.k),
                                             ChangeHours) ]
    /\ fn_pc' = "applied"
    /\ UNCHANGED <<fn_in, pc, clock, ticks, now_local, now_utc, now_utc_ts,
                   issued, frames, snapshot, message, exc, sent, escaped,
                   attempts>>

NextPct == ApplyPct

SpecPct == InitPct /\ [][NextPct]_vars

InitVol ==
    /\ NoRequest
    /\ fn_pc = "input"
    /\ fn_in \in [df : FineSeries, now : ReferenceTimes]
    /\ fn_out = NoFunction

\* _last_hour_volume_sum(df, now)
ApplyVol ==
    /\ fn_pc = "input"
    /\ fn_out' = [volume |-> _last_hour_volume_sum(fn_in.df, fn_in.now)]
    /\ fn_pc' = "applied"
    /\ UNCHANGED <<fn_in, pc, clock, ticks, now_local, now_utc, now_utc_ts,
                   issued, frames, snapshot, message, exc, sent, escaped,
                   attempts>>

NextVol == ApplyVol

SpecVol == InitVol /\ [][NextVol]_vars

---------------------------------------------------------------------------
(* What the claims are stated with *)

\* the rows of df with a close, as indices
WithClose(df) == {i \in 1..Len(df) : ~IsNaN(df[i].Close)}

\* the index in I (non-empty) of the row with the largest timestamp
Latest(df, I) == CHOOSE i \in I : \A j \in I : df[j].t <= df[i].t

\* the index in I (non-empty) of the row with the smallest timestamp
Earliest(df, I) == CHOOSE i \in I : \A j \in I : df[i].t <= df[j].t

\* the rows of df inside the window (now - 1h, now]
InWindow(df, now) ==
    {i \in 1..Len(df) : now - MinutesPerHour < df[i].t /\ df[i].t <= now}

\* the sum of the volumes of the rows I of df, a missing volume counting as 0
RECURSIVE VolumeOfRows(_, _)
VolumeOfRows(df, I) ==
    IF I = {} THEN 0
    ELSE LET i == CHOOSE j \in I : TRUE
         IN  (IF IsNaN(df[i].Volume) THEN 0 ELSE df[i].Volume[1])
             + VolumeOfRows(df, I \ {i})

WindowVolume(df, now) == VolumeOfRows(df, InWindow(df, now))

\* C3: for a frame with increasing timestamps _pct_change_over_hours(df, 24)
\* is unavailable exactly when the frame is empty, has no close, or the base
\* close is zero, and otherwise equals (last - base) / base * 100, where last
\* is the latest close, at last_time, and base is the latest close at or
\* before last_time - 24h (a row exactly at the cutoff counts) or, when there
\* is none, the earliest close of the frame.
C3_PctChange24h ==
    fn_pc = "applied" =>
        LET df == fn_in.df
            V  == WithClose(df)
            r  == fn_out.change
        IN  IF V = {} THEN IsNaN(r)
            ELSE LET li   == Latest(df, V)
                     P    == {i \in V : df[i].t <= df[li].t - ChangeHours * MinutesPerHour}
                     bi   == IF P # {} THEN Latest(df, P) ELSE Earliest(df, V)
                     last == df[li].Close[1]
                     base == df[bi].Close[1]
                 IN  /\ IsNaN(r) <=> base = 0
                     /\ ~IsNaN(r) =>
                          /\ r[2] > 0
                          /\ r[1] * base = r[2] * (last - base) * 100

\* C3's case: a close exactly at the cutoff is the base of an available change
\* although an older close and a missing close are in the frame
C3_Witness ==
    /\ fn_pc = "applied"
    /\ ~IsNaN(fn_out.change)
    /\ fn_out.change # <<0, 1>>
    /\ \E i, j \in WithClose(fn_in.df) :
          /\ fn_in.df[j].t - fn_in.df[i].t = ChangeHours * MinutesPerHour
          /\ j = Latest(fn_in.df, WithClose(fn_in.df))
          /\ i > 1
    /\ \E i \in 1..Len(fn_in.df) : IsNaN(fn_in.df[i].Close)

C4_TrailingHourVolume ==
    fn_pc = "applied" =>
        /\ fn_out.volume = WindowVolume(fn_in.df, fn_in.now)
        /\ (InWindow(fn_in.df, fn_in.now) = {} => fn_out.volume = 0)

\* C4's case: rows exactly at now - 1h, exactly at now and after now, all
\* with a volume; only the row at now is counted
C4_Witness ==
    /\ fn_pc = "applied"
    /\ Len(fn_in.df) = 3
    /\ fn_in.df[1].t = fn_in.now - MinutesPerHour
    /\ fn_in.df[2].t = fn_in.now
    /\ fn_in.df[3].t > fn_in.now
    /\ \A i \in 1..3 : ~IsNaN(fn_in.df[i].Volume)
    /\ fn_out.volume = fn_in.df[2].Volume[1]

---------------------------------------------------------------------------
(* Claims about one /gold request *)

Built == snapshot # NoSnapshot

Rendered == message # NoMessage

\* every close of the frame is present and positive
ValidFrame(df) ==
    /\ Len(df) > 0
    /\ \A i \in 1..Len(df) : ~IsNaN(df[i].Close) /\ df[i].Close[1] > 0

\* the latest close of the fine frame, else of the coarse frame, else NaN
FallbackPrice(fine, coarse) ==
    IF WithClose(fine) # {} THEN fine[Latest(fine, WithClose(fine))].Close
    ELSE IF WithClose(coarse) # {} THEN coarse[Latest(coarse, WithClose(coarse))].Close
    ELSE NaN

\* the closes a group of frames holds
ClosesOf(dfs) == UNION { {df[i].Close : i \in 1..Len(df)} : df \in dfs }

\* get_gold_snapshot has been called and is no longer running
BuilderLeft ==
    /\ attempts["get_gold_snapshot"] = 1
    /\ pc \in {"format", "reply", "except", "done"}

\* C1: whatever the retrievals answer, get_gold_snapshot returns a snapshot
\* and does not raise, and an instrument whose frames are all empty has an
\* unavailable price and change and a last-hour volume of zero
C1_SnapshotAlwaysReturned ==
    BuilderLeft =>
        /\ Built
        /\ (frames["spot_1m"] = EmptyFrame /\ frames["spot_1h"] = EmptyFrame)
              => IsNaN(snapshot.spot.price) /\ IsNaN(snapshot.spot.change_24h_pct)
        /\ (frames["etf_1m"] = EmptyFrame /\ frames["etf_1h"] = EmptyFrame)
              => /\ IsNaN(snapshot.etf.price)
                 /\ IsNaN(snapshot.etf.change_24h_pct)
                 /\ snapshot.etf.last_hour_volume = 0
        /\ (\A s \in {"fut_main_1h", "fut_1m_0", "fut_1m_1", "fut_main_1m"} :
                frames[s] = EmptyFrame)
              => /\ IsNaN(snapshot.futures.price_main)
                 /\ IsNaN(snapshot.futures.change_24h_pct)
                 /\ snapshot.futures.last_hour_volume_sum = 0

\* C2: each price of the snapshot is the latest close of the fine frame, else
\* (fine frame empty or without any close) the latest close of the coarse
\* frame, and unavailable only when neither frame has a close
C2_PriceFallsBackToCoarse ==
    Built =>
        /\ snapshot.spot.price = FallbackPrice(frames["spot_1m"], frames["spot_1h"])
        /\ snapshot.etf.price = FallbackPrice(frames["etf_1m"], frames["etf_1h"])
        /\ snapshot.futures.price_main =
              FallbackPrice(frames["fut_main_1m"], frames["fut_main_1h"])

\* C5: the futures price and change come from the frames of the primary
\* contract alone, the futures volume is the sum of the trailing-hour volume
\* of both contracts; with the secondary contract's frame empty and the
\* primary's frames valid the volume is the primary's alone and price and
\* change are available
C5_FuturesGroup ==
    Built =>
        /\ snapshot.futures.price_main \in
              {NaN} \cup ClosesOf({frames["fut_main_1m"], frames["fut_main_1h"]})
        /\ snapshot.futures.change_24h_pct =
              _pct_change_over_hours(frames["fut_main_1h"], ChangeHours)
        /\ snapshot.futures.last_hour_volume_sum =
              WindowVolume(frames["fut_1m_0"], now_utc_ts[1])
              + WindowVolume(frames["fut_1m_1"], now_utc_ts[1])
        /\ ( /\ frames["fut_1m_1"] = EmptyFrame
             /\ ValidFrame(frames["fut_1m_0"])
             /\ ValidFrame(frames["fut_main_1m"])
             /\ ValidFrame(frames["fut_main_1h"]) )
              => /\ snapshot.futures.last_hour_volume_sum =
                       WindowVolume(frames["fut_1m_0"], now_utc_ts[1])
                 /\ ~IsNaN(snapshot.futures.price_main)
                 /\ ~IsNaN(snapshot.futures.change_24h_pct)

\* C5's case: a snapshot built from a valid primary contract and an empty
\* secondary one, the primary having traded in the trailing hour
C5_Witness ==
    /\ Built
    /\ frames["fut_1m_1"] = EmptyFrame
    /\ ValidFrame(frames["fut_1m_0"])
    /\ ValidFrame(frames["fut_main_1m"])
    /\ ValidFrame(frames["fut_main_1h"])
    /\ snapshot.futures.last_hour_volume_sum > 0
    /\ ~IsNaN(snapshot.futures.price_main)

\* C6: the total is the ETF volume plus the futures volume, and both are made
\* of the ETF's and the futures contracts' rows only, whatever volumes the
\* spot frames carry
C6_TotalsExcludeSpot ==
    Built =>
        /\ snapshot.totals.last_hour_volume_all =
              snapshot.etf.last_hour_volume + snapshot.futures.last_hour_volume_sum
        /\ snapshot.totals.last_hour_volume_all =
              WindowVolume(frames["etf_1m"], now_utc_ts[1])
              + WindowVolume(frames["fut_1m_0"], now_utc_ts[1])
              + WindowVolume(frames["fut_1m_1"], now_utc_ts[1])
        /\ DOMAIN snapshot.spot = {"ticker", "price", "change_24h_pct"}

\* C6's case: a snapshot whose spot frame carries volume inside the window
\* while the ETF and the futures have traded too
C6_Witness ==
    /\ Built
    /\ WindowVolume(frames["spot_1m"], now_utc_ts[1]) > 0
    /\ snapshot.etf.last_hour_volume > 0
    /\ snapshot.futures.last_hour_volume_sum > 0

\* C7: format_snapshot does not raise on a snapshot of the builder, and a
\* price that is unavailable is rendered as the placeholder n/a
C7_UnavailablePriceRendersPlaceholder ==
    /\ (Built /\ pc \in {"reply", "except", "done"}) => Rendered
    /\ Rendered =>
          /\ IsNaN(snapshot.spot.price) => message.spot.price = [text |-> "n/a"]
          /\ IsNaN(snapshot.etf.price) => message.etf.price = [text |-> "n/a"]
          /\ IsNaN(snapshot.futures.price_main)
                => message.futures.price = [text |-> "n/a"]

\* C8: when a step of the handler raised, the requester has got exactly one
\* error message carrying the exception's message and nothing escapes
\* gold_cmd; when none raised, exactly one report; no step runs twice
C8_HandlerBoundary ==
    pc = "done" =>
        /\ escaped = ""
        /\ \A s \in Steps : attempts[s] <= 1
        /\ IF exc # ""
           THEN sent = << [kind |-> "error", detail |-> exc] >>
           ELSE sent = << [kind |-> "report", body |-> message] >>

\* C10: as_of is read before any retrieval, the reference now only after all
\* eight have returned; that one reading bounds the window of the ETF and of
\* every futures contract, and it is not earlier than as_of
C10_ClockReadings ==
    /\ (pc = "fetch" \/ issued > 0) => ~IsNaN(now_local)
    /\ ~IsNaN(now_utc_ts) =>
          /\ issued = NumRetrievals
          /\ now_utc_ts[1] >= now_local[1]
    /\ Built =>
          /\ snapshot.as_of_local.t = now_local[1]
          /\ snapshot.as_of_local.t <= now_utc_ts[1]
          /\ snapshot.etf.last_hour_volume =
                WindowVolume(frames["etf_1m"], now_utc_ts[1])
          /\ snapshot.futures.last_hour_volume_sum =
                WindowVolume(frames["fut_1m_0"], now_utc_ts[1])
                + WindowVolume(frames["fut_1m_1"], now_utc_ts[1])

\* C10's case: the clock moved between line 95 and line 118, and the ETF
\* volume of the snapshot is not what the earlier reading would have given
C10_Witness ==
    /\ Built
    /\ now_local[1] < now_utc_ts[1]
    /\ now_utc[1] < now_utc_ts[1]
    /\ snapshot.etf.last_hour_volume
          # WindowVolume(frames["etf_1m"], now_utc[1])
    /\ snapshot.futures.last_hour_volume_sum
          # WindowVolume(frames["fut_1m_0"], now_utc[1])
            + WindowVolume(frames["fut_1m_1"], now_utc[1])

====
